---- MODULE Spec2Model ----
(***************************************************************************)
(* A model of analysis.py: ScientificDAOAnalyzer and main.                 *)
(*                                                                         *)
(* Python floats are IEEE-754 binary64 values.  They are modelled exactly: *)
(* a float is a sign, a 53-bit significand and a binary exponent, and each *)
(* arithmetic operation computes the exact result and rounds it to nearest,*)
(* ties to even.  Significands are natural numbers held as sequences of    *)
(* 15-bit limbs, least significant limb first.  The values of this program *)
(* stay far from the overflow and subnormal ranges, which are not modelled.*)
(***************************************************************************)
EXTENDS Integers, Sequences, FiniteSets, TLC

----------------------------------------------------------------------------
(* Natural numbers of any size: sequences of limbs, least significant first,*)
(* without zero limbs at the high end; <<>> is 0.                           *)

Base == 2^15

RECURSIVE BTrim(_)
BTrim(a) ==
    IF a = <<>> THEN a
    ELSE IF a[Len(a)] = 0 THEN BTrim(SubSeq(a, 1, Len(a) - 1)) ELSE a

RECURSIVE BFromInt(_)
BFromInt(n) ==
    IF n = 0 THEN <<>> ELSE <<n % Base>> \o BFromInt(n \div Base)

Limb(a, i) == IF i <= Len(a) THEN a[i] ELSE 0

RECURSIVE BAddC(_, _, _, _)
BAddC(a, b, i, c) ==
    IF i > Len(a) /\ i > Len(b)
    THEN (IF c = 0 THEN <<>> ELSE <<c>>)
    ELSE LET t == Limb(a, i) + Limb(b, i) + c
         IN  <<t % Base>> \o BAddC(a, b, i + 1, t \div Base)

BAdd(a, b) == BAddC(a, b, 1, 0)

RECURSIVE BSubC(_, _, _, _)
BSubC(a, b, i, br) ==
    IF i > Len(a) THEN <<>>
    ELSE LET t == Limb(a, i) - Limb(b, i) - br
         IN  IF t < 0 THEN <<t + Base>> \o BSubC(a, b, i + 1, 1)
                      ELSE <<t>> \o BSubC(a, b, i + 1, 0)

\* a - b, for a >= b
BSub(a, b) == BTrim(BSubC(a, b, 1, 0))

RECURSIVE BCmpAt(_, _, _)
BCmpAt(a, b, i) ==
    IF i = 0 THEN 0
    ELSE IF a[i] > b[i] THEN 1
    ELSE IF a[i] < b[i] THEN -1
    ELSE BCmpAt(a, b, i - 1)

\* -1, 0 or 1 as a < b, a = b or a > b
BCmp(a, b) ==
    IF Len(a) > Len(b) THEN 1
    ELSE IF Len(a) < Len(b) THEN -1
    ELSE BCmpAt(a, b, Len(a))

RECURSIVE BMulLimbC(_, _, _, _)
BMulLimbC(a, d, i, c) ==
    IF i > Len(a)
    THEN (IF c = 0 THEN <<>> ELSE <<c>>)
    ELSE LET t == a[i] * d + c
         IN  <<t % Base>> \o BMulLimbC(a, d, i + 1, t \div Base)

RECURSIVE BMulAt(_, _, _)
BMulAt(a, b, j) ==
    IF j > Len(b) THEN <<>>
    ELSE BAdd(BMulLimbC(a, b[j], 1, 0), <<0>> \o BMulAt(a, b, j + 1))

BMul(a, b) == BTrim(BMulAt(a, b, 1))

RECURSIVE LimbBits(_)
LimbBits(d) == IF d = 0 THEN 0 ELSE 1 + LimbBits(d \div 2)

\* the number of bits of a: 0 for 0
BLen(a) ==
    IF a = <<>> THEN 0 ELSE (Len(a) - 1) * 15 + LimbBits(a[Len(a)])

RECURSIVE Zeros(_)
Zeros(n) == IF n = 0 THEN <<>> ELSE <<0>> \o Zeros(n - 1)

\* a * 2^k
BShl(a, k) ==
    IF a = <<>> THEN a
    ELSE Zeros(k \div 15) \o BMulLimbC(a, 2^(k % 15), 1, 0)

RECURSIVE BShrAt(_, _, _)
BShrAt(a, i, r) ==
    IF i > Len(a) THEN <<>>
    ELSE <<(a[i] \div 2^r) + (Limb(a, i + 1) % 2^r) * 2^(15 - r)>> \o BShrAt(a, i + 1, r)

\* a \div 2^k
BShr(a, k) == BTrim(BShrAt(a, (k \div 15) + 1, k % 15))

BBit(a, i) == (Limb(a, (i \div 15) + 1) \div 2^(i % 15)) % 2

\* long division, one bit: the quotient q so far and the remainder r2 with the next
\* bit of the dividend shifted in
BDivNext(b, r2, q) ==
    IF BCmp(r2, b) >= 0
    THEN [q |-> BMulLimbC(q, 2, 1, 1), r |-> BSub(r2, b)]
    ELSE [q |-> BMulLimbC(q, 2, 1, 0), r |-> r2]

\* the quotient q and remainder r so far, bit i of a next
BDivBit(a, b, i, qr) ==
    CHOOSE s \in {BDivNext(b, r2, qr.q) : r2 \in {BMulLimbC(qr.r, 2, 1, BBit(a, i))}} : TRUE

\* the bits j, j-1, .. 0 of limb l of a
RECURSIVE BDivLimb(_, _, _, _, _)
BDivLimb(a, b, l, j, qr) ==
    IF j < 0 THEN qr
    ELSE LET s == BDivBit(a, b, (l - 1) * 15 + j, qr)
         IN  IF Len(s.q) >= 0 THEN BDivLimb(a, b, l, j - 1, s) ELSE qr

\* the limbs l, l-1, .. 1 of a
RECURSIVE BDivStep(_, _, _, _)
BDivStep(a, b, l, qr) ==
    IF l = 0 THEN qr
    ELSE LET s == BDivLimb(a, b, l, 14, qr)
         IN  IF Len(s.q) >= 0 THEN BDivStep(a, b, l - 1, s) ELSE qr

\* the division from bit n - 1 of a down: the bits of a above it are the remainder
\* so far
BDivFrom(a, b, n) ==
    BDivStep(a, b, (n - 1) \div 15,
             BDivLimb(a, b, ((n - 1) \div 15) + 1, (n - 1) % 15,
                      [q |-> <<>>, r |-> BShr(a, n)]))

\* a \div b and a % b, for b > 0: the top BLen(b) - 1 bits of a are below b
BDivMod(a, b) ==
    IF BLen(a) < BLen(b) THEN [q |-> <<>>, r |-> a]
    ELSE BDivFrom(a, b, BLen(a) - BLen(b) + 1)

----------------------------------------------------------------------------
(* binary64: the value s * m * 2^e with s in {1, -1} and 2^52 <= m < 2^53,  *)
(* or Zero.  Equal floats are equal records.                                *)

Zero == [s |-> 1, m |-> <<>>, e |-> 0]

\* s * q * 2^e for a q of 53 or, after rounding up to 2^53, 54 bits
Normal(s, e, q) ==
    IF BLen(q) = 54
    THEN [s |-> s, m |-> BShr(q, 1), e |-> e + 1]
    ELSE [s |-> s, m |-> q, e |-> e]

\* q rounded up when the part cut off compares (c) above the half, or equals it
\* and q is odd
RoundUp(s, e, q, c) ==
    Normal(s, e, IF c = 1 \/ (c = 0 /\ q[1] % 2 = 1) THEN BAdd(q, <<1>>) ELSE q)

\* M cut by k bits to q
RoundCut(s, M, E, k, q) ==
    RoundUp(s, E + k, q, BCmp(BSub(M, BShl(q, k)), BShl(<<1>>, k - 1)))

RoundLen(s, M, E, L) ==
    IF L <= 53
    THEN [s |-> s, m |-> BShl(M, 53 - L), e |-> E - (53 - L)]
    ELSE RoundCut(s, M, E, L - 53, BShr(M, L - 53))

\* s * M * 2^E rounded to nearest, ties to even
Round(s, M, E) == IF M = <<>> THEN Zero ELSE RoundLen(s, M, E, BLen(M))

\* float(n) of a Python int n
FromInt(n) == Round(IF n < 0 THEN -1 ELSE 1, BFromInt(IF n < 0 THEN -n ELSE n), 0)

FNeg(x) == IF x = Zero THEN x ELSE [x EXCEPT !.s = -x.s]

(* The operands of an operation are evaluated once: they are bound as the   *)
(* elements of one-element sets before the operation is computed.           *)

MulValues(x, y) == Round(x.s * y.s, BMul(x.m, y.m), x.e + y.e)

\* x * y
FMul(x, y) == CHOOSE r \in {MulValues(xv, yv) : xv \in {x}, yv \in {y}} : TRUE

\* the sum of two floats that are not zero, aligned at the lower exponent e
\* c compares X and Y
AddSigned(x, y, e, X, Y, c) ==
    Round(IF x.s = y.s \/ c >= 0 THEN x.s ELSE y.s,
          IF x.s = y.s THEN BAdd(X, Y) ELSE IF c >= 0 THEN BSub(X, Y) ELSE BSub(Y, X),
          e)

AddAligned(x, y, e, X, Y) == AddSigned(x, y, e, X, Y, BCmp(X, Y))

AddAt(x, y, e) == AddAligned(x, y, e, BShl(x.m, x.e - e), BShl(y.m, y.e - e))

AddValues(x, y) ==
    IF x = Zero THEN y
    ELSE IF y = Zero THEN x
    ELSE AddAt(x, y, IF x.e < y.e THEN x.e ELSE y.e)

\* x + y
FAdd(x, y) == CHOOSE r \in {AddValues(xv, yv) : xv \in {x}, yv \in {y}} : TRUE

\* x - y
FSub(x, y) == FAdd(x, FNeg(y))

\* x / y, for y # 0: the quotient to 56 bits and a sticky bit, then rounded
DivRounded(x, y, d) ==
    Round(x.s * y.s, BAdd(BAdd(d.q, d.q), IF d.r = <<>> THEN <<>> ELSE <<1>>),
          x.e - y.e - 56)

DivValues(x, y) ==
    IF x = Zero THEN Zero ELSE DivRounded(x, y, BDivMod(BShl(x.m, 55), y.m))

FDiv(x, y) == CHOOSE r \in {DivValues(xv, yv) : xv \in {x}, yv \in {y}} : TRUE

\* x < y
FLt(x, y) == \E d \in {FSub(x, y)} : d # Zero /\ d.s = -1

FAbs(x) == [x EXCEPT !.s = 1]

\* the decimal literal n * 10^-k, as Python reads it (correctly rounded)
Dec(n, k) == FDiv(FromInt(n), FromInt(10^k))

----------------------------------------------------------------------------
(* Python values.  None, and the outcome of an expression that raised.      *)

None == [t |-> "None"]
Raise == [t |-> "raise"]

(* JSON values as response.json() returns them: str, float, dict, list.     *)
JS(s) == [t |-> "str", v |-> s]
JN(x) == [t |-> "num", v |-> x]
JO(f) == [t |-> "obj", v |-> f]
JA(q) == [t |-> "arr", v |-> q]

\* d[k]: KeyError on a missing key, TypeError on a str, list or number
GetItem(d, k) ==
    IF d.t = "obj" /\ k \in DOMAIN d.v THEN d.v[k] ELSE Raise

\* d.get(k): None on a missing key, AttributeError on anything but a dict
DictGet(d, k) ==
    IF d.t # "obj" THEN Raise
    ELSE IF k \in DOMAIN d.v THEN d.v[k] ELSE None

\* x == '...' for a str literal
PyEq(x, s) == x.t = "str" /\ x.v = s

\* k in d: the keys of a dict, the elements of a list, the text of a str
Contains(k, d) ==
    IF d.t = "obj" THEN k \in DOMAIN d.v
    ELSE IF d.t = "arr" THEN \E i \in 1..Len(d.v) : PyEq(d.v[i], k)
    ELSE d.t = "str" /\ d.v = k

\* k in d raises TypeError on a number
ContainsRaises(d) == d.t \notin {"obj", "arr", "str"}

\* the numerals the responses of this model carry, as float() reads them: the
\* binary64 values nearest to 30, 45.2, 2.3 and 3000.5
F_30 == [s |-> 1, m |-> <<0, 0, 0, 240>>, e |-> -48]
F_45_2 == [s |-> 1, m |-> <<6554, 13107, 26214, 180>>, e |-> -47]
F_2_3 == [s |-> 1, m |-> <<26214, 19660, 6553, 147>>, e |-> -51]
F_3000_5 == [s |-> 1, m |-> <<0, 0, 17408, 187>>, e |-> -41]

Numerals == {"30", "45.2", "2.3", "3000.5"}

ParseNumeral(s) ==
    CASE s = "30" -> F_30
      [] s = "45.2" -> F_45_2
      [] s = "2.3" -> F_2_3
      [] s = "3000.5" -> F_3000_5

\* float(v): a number, or a str holding a numeral; ValueError or TypeError otherwise
PyFloat(v) ==
    IF v.t = "num" THEN v.v
    ELSE IF v.t = "str" /\ v.v \in Numerals THEN ParseNumeral(v.v)
    ELSE Raise

\* s in url, for the words the code looks for: a URL is a sequence of pieces
UrlContains(word, url) == \E i \in 1..Len(url) : url[i] = word

----------------------------------------------------------------------------
(* The network.  A request either raises (connection error, timeout) or     *)
(* returns a status code and a body; a body is JSON or does not parse.      *)

Invalid == [t |-> "invalid"]

Exception == [kind |-> "exception"]
Http(code, body) == [kind |-> "http", status_code |-> code, body |-> body]

\* response.json()
Json(r) == IF r.body = Invalid THEN Raise ELSE r.body

\* the bodies of the gas oracles (Etherscan, Polygonscan)
GasOracleOk(p) ==
    JO([status |-> JS("1"), message |-> JS("OK"),
        result |-> JO([SafeGasPrice |-> JS("30"), ProposeGasPrice |-> JS(p)])])
GasOracleNotOk ==
    JO([status |-> JS("0"), message |-> JS("NOTOK"),
        result |-> JS("Max rate limit reached")])
GasOracleNoField ==
    JO([status |-> JS("1"), message |-> JS("OK"),
        result |-> JO([SafeGasPrice |-> JS("30")])])
GasOracleNotNumber ==
    JO([status |-> JS("1"), message |-> JS("OK"),
        result |-> JO([SafeGasPrice |-> JS("30"), ProposeGasPrice |-> JS("n/a")])])

\* the bodies of the Polygon gas station
GasStation(fee) ==
    JO([safeLow |-> JO([maxFee |-> JN(F_30)]), standard |-> JO([maxFee |-> JN(fee)])])
GasStationStandard(fee) == JO([standard |-> JO([maxFee |-> JN(fee)])])
GasStationNoFee ==
    JO([standard |-> JO([maxPriorityFee |-> JN(F_30)])])

\* the bodies of the price API
PriceOk(usd) == JO([ethereum |-> JO([usd |-> JN(usd)])])
PriceNoUsd == JO([ethereum |-> JO([eur |-> JN(F_3000_5)])])
PriceNoCoin == JO([bitcoin |-> JO([usd |-> JN(F_3000_5)])])

EthResponses ==
    { Exception, Http(503, GasOracleOk("30")), Http(200, Invalid),
      Http(200, GasOracleNotOk), Http(200, GasOracleNoField),
      Http(200, GasOracleNotNumber), Http(200, GasOracleOk("30")) }

PolPrimaryResponses ==
    { Exception, Http(503, GasOracleOk("45.2")), Http(200, Invalid),
      Http(200, GasOracleNotOk), Http(200, GasStation(F_2_3)),
      Http(200, GasOracleOk("45.2")) }

PolSecondaryResponses ==
    { Exception, Http(503, GasStation(F_2_3)), Http(200, Invalid),
      Http(200, GasStationNoFee), Http(200, GasOracleOk("45.2")),
      Http(200, JA(<<JS("standard")>>)), Http(200, GasStationStandard(F_2_3)) }

PriceResponses ==
    { Exception, Http(503, PriceOk(F_3000_5)), Http(200, Invalid),
      Http(200, PriceNoUsd), Http(200, PriceNoCoin), Http(200, PriceOk(F_3000_5)) }

----------------------------------------------------------------------------
(* ScientificDAOAnalyzer.fetch_real_network_data                            *)

eth_url == <<"https://api.etherscan.io/api?module=gastracker&action=", "gasoracle">>

pol_endpoints ==
    << <<"https://api.polygonscan.com/api?module=gastracker&action=", "gasoracle">>,
       <<"https://", "gasstation", "-mainnet.matic.network/v2">> >>

price_url == <<"https://api.coingecko.com/api/v3/simple/price?ids=ethereum&vs_currencies=usd">>

\* the responses an endpoint may give
Responses(url) ==
    IF url = eth_url THEN EthResponses
    ELSE IF url = pol_endpoints[1] THEN PolPrimaryResponses
    ELSE IF url = pol_endpoints[2] THEN PolSecondaryResponses
    ELSE PriceResponses

\* provenance strings, as sequences of pieces
Live(name, ts) == name \o <<" - ", ts>>
FallbackEthGas == <<"Fallback", ": 30-day empirical average (etherscan.io historical data)">>
FallbackPolGas == <<"Fallback", ": Network empirical average (polygonscan.com data)">>
FallbackEthPrice == <<"Fallback", ": Market reference (coingecko.com historical)">>

\* the literal defaults 25.0, 1.5 and 3500.0
DefaultEthGas == [s |-> 1, m |-> <<0, 0, 0, 200>>, e |-> -48]
DefaultPolGas == [s |-> 1, m |-> <<0, 0, 0, 192>>, e |-> -52]
DefaultEthPrice == [s |-> 1, m |-> <<0, 0, 24576, 218>>, e |-> -41]

\* EthGasAttempt without the test of status_code
EthGasAttemptAnyStatus(r) ==
    IF r.kind = "exception" THEN None
    ELSE LET eth_data == Json(r)
             status == IF eth_data = Raise THEN Raise ELSE DictGet(eth_data, "status")
         IN  IF status = Raise THEN None
             ELSE IF ~PyEq(status, "1") THEN None
             ELSE LET v == PyFloat(GetItem(GetItem(eth_data, "result"), "ProposeGasPrice"))
                  IN  IF v = Raise THEN None ELSE v

\* the Etherscan attempt: the gas price it sets, or None when it sets nothing
\* (any exception between the request and the assignment is caught)
EthGasAttempt(r) ==
    IF r.kind = "exception" THEN None
    ELSE IF r.status_code # 200 THEN None
    ELSE LET eth_data == Json(r)
             status == IF eth_data = Raise THEN Raise ELSE DictGet(eth_data, "status")
         IN  IF status = Raise THEN None
             ELSE IF ~PyEq(status, "1") THEN None
             ELSE LET v == PyFloat(GetItem(GetItem(eth_data, "result"), "ProposeGasPrice"))
                  IN  IF v = Raise THEN None ELSE v

\* one Polygon attempt: the gas price and provenance it sets, or None
PolGasAttempt(endpoint, r) ==
    IF r.kind = "exception" THEN None
    ELSE IF r.status_code # 200 THEN None
    ELSE LET pol_data == Json(r)
             status == DictGet(pol_data, "status")
         IN  IF pol_data = Raise THEN None
             ELSE IF UrlContains("gasoracle", endpoint) /\ status = Raise THEN None
             ELSE IF UrlContains("gasoracle", endpoint) /\ PyEq(status, "1")
             THEN LET v == PyFloat(GetItem(GetItem(pol_data, "result"), "ProposeGasPrice"))
                  IN  IF v = Raise THEN None
                      ELSE [price |-> v, source |-> <<"Polygonscan.com API">>]
             ELSE IF UrlContains("gasstation", endpoint) /\ ContainsRaises(pol_data)
             THEN None
             ELSE IF UrlContains("gasstation", endpoint) /\ Contains("standard", pol_data)
             THEN LET v == PyFloat(GetItem(GetItem(pol_data, "standard"), "maxFee"))
                  IN  IF v = Raise THEN None
                      ELSE [price |-> v, source |-> <<"Polygon ", "Gas Station">>]
             ELSE None

\* the CoinGecko attempt: the price it sets, or None
EthPriceAttempt(r) ==
    IF r.kind = "exception" THEN None
    ELSE IF r.status_code # 200 THEN None
    ELSE LET price_data == Json(r)
             v == PyFloat(GetItem(GetItem(price_data, "ethereum"), "usd"))
         IN  IF price_data = Raise THEN None
             ELSE IF v = Raise THEN None ELSE v

\* PolLoopNext without the break
PolLoopNextNoBreak(i, attempt) == IF i < Len(pol_endpoints) THEN i + 1 ELSE 0

\* the Polygon loop after the attempt at endpoint i: break on a value, else the
\* next endpoint, else the end of the list (0)
PolLoopNext(i, attempt) ==
    IF attempt # None THEN 0
    ELSE IF i < Len(pol_endpoints) THEN i + 1 ELSE 0

----------------------------------------------------------------------------
(* ScientificDAOAnalyzer.calculate_cost_with_confidence_intervals           *)

\* the literals 1e-9, 1.96, 0.15, 0.08 and 0.95: the binary64 values nearest to them
F_1e_9 == [s |-> 1, m |-> <<22165, 20557, 14383, 137>>, e |-> -82]
F_1_96 == [s |-> 1, m |-> <<3932, 27525, 28835, 250>>, e |-> -52]
F_0_15 == [s |-> 1, m |-> <<13107, 26214, 19660, 153>>, e |-> -55]
F_0_08 == [s |-> 1, m |-> <<5243, 3932, 27525, 163>>, e |-> -56]
F_0_95 == [s |-> 1, m |-> <<26214, 19660, 6553, 243>>, e |-> -53]

\* GasPrice with the two branches exchanged
GasPriceSwapped(egp, pgp, net) ==
    IF net = "ethereum"
    THEN (IF pgp # None THEN pgp ELSE DefaultPolGas)
    ELSE (IF egp # None THEN egp ELSE DefaultEthGas)

\* the gas price selected for the network: anything but 'ethereum' is Polygon
GasPrice(egp, pgp, net) ==
    IF net = "ethereum"
    THEN (IF egp # None THEN egp ELSE DefaultEthGas)
    ELSE (IF pgp # None THEN pgp ELSE DefaultPolGas)

\* Volatility in percent instead of as a fraction
VolatilityPercent(net) == IF net = "ethereum" THEN FromInt(15) ELSE FromInt(8)

\* the volatility of the network: anything but 'ethereum' is Polygon
Volatility(net) == IF net = "ethereum" THEN F_0_15 ELSE F_0_08

\* lower_bound and upper_bound
LowerBound(cost_usd, margin_error) == FSub(cost_usd, margin_error)
UpperBound(cost_usd, margin_error) == FAdd(cost_usd, margin_error)

\* eth_price
EthPrice(epu) == IF epu # None THEN epu ELSE DefaultEthPrice

\* cost_eth, cost_usd and margin_error
CostEth(gas_amount, gas_price) == FMul(FMul(FromInt(gas_amount), gas_price), F_1e_9)
CostUsd(cost_eth, eth_price) == FMul(cost_eth, eth_price)
\* (MarginError without the z-score)
MarginErrorNoZ(volatility, cost_usd) == FMul(volatility, cost_usd)
MarginError(volatility, cost_usd) == FMul(FMul(F_1_96, volatility), cost_usd)

\* the dict returned
Estimate(cost_eth, cost_usd, margin_error) ==
    [cost_usd |-> cost_usd,
     cost_eth |-> cost_eth,
     lower_bound |-> LowerBound(cost_usd, margin_error),
     upper_bound |-> UpperBound(cost_usd, margin_error),
     margin_error |-> margin_error,
     confidence_level |-> F_0_95]

EstimateOfCostUsd(cost_eth, cost_usd, net) ==
    Estimate(cost_eth, cost_usd, MarginError(Volatility(net), cost_usd))

EstimateOfCostEth(cost_eth, eth_price, net) ==
    EstimateOfCostUsd(cost_eth, CostUsd(cost_eth, eth_price), net)

\* the snapshot is the analyzer's eth_gas_price, pol_gas_price, eth_price_usd
calculate_cost_with_confidence_intervals(egp, pgp, epu, gas_amount, net) ==
    EstimateOfCostEth(CostEth(gas_amount, GasPrice(egp, pgp, net)), EthPrice(epu), net)

----------------------------------------------------------------------------
(* The reference data and generate_figure1_cost_comparison                  *)

\* get_verified_dao_transaction_data: vote_gas and proposal_gas, in dict order
dao_vote_gas == <<89534, 67891, 78123>>
dao_proposal_gas == <<234567, 187432, 198765>>

\* get_pnr_dao_verified_costs: the gas of each operation
our_costs ==
    [op \in {"Join DAO", "Create Proposal", "Cast Vote", "Create Private Deal",
             "Batch Operations (5x)"} |->
        CASE op = "Join DAO" -> 171000
          [] op = "Create Proposal" -> 161000
          [] op = "Cast Vote" -> 31000
          [] op = "Create Private Deal" -> 185000
          [] op = "Batch Operations (5x)" -> 287000]

operations == <<"Join DAO", "Cast Vote", "Create Proposal", "Private Deal">>

\* the gas of an operation of the right panel
OperationGas(op) ==
    IF op \in DOMAIN our_costs THEN our_costs[op] ELSE our_costs["Create Private Deal"]

\* the cost analysis of each gas amount of a list, on one network
RECURSIVE Analyses(_, _, _, _, _)
Analyses(egp, pgp, epu, gases, net) ==
    IF gases = <<>> THEN <<>>
    ELSE <<calculate_cost_with_confidence_intervals(egp, pgp, epu, Head(gases), net)>>
         \o Analyses(egp, pgp, epu, Tail(gases), net)

\* one entry of each analysis of a list
RECURSIVE Column(_, _)
Column(analyses, key) ==
    IF analyses = <<>> THEN <<>>
    ELSE <<Head(analyses)[key]>> \o Column(Tail(analyses), key)

RECURSIVE OperationsGas(_)
OperationsGas(ops) ==
    IF ops = <<>> THEN <<>> ELSE <<OperationGas(Head(ops))>> \o OperationsGas(Tail(ops))

\* x / y on floats: ZeroDivisionError on a zero divisor
PyDiv(x, y) == IF y = Zero THEN Raise ELSE FDiv(x, y)

\* the literal 100
F_100 == [s |-> 1, m |-> <<0, 0, 0, 200>>, e |-> -46]

\* Savings without the test of eth_cost
SavingsUnguarded(eth_cost, pol_cost) ==
    IF PyDiv(FSub(eth_cost, pol_cost), eth_cost) = Raise THEN Raise
    ELSE FMul(PyDiv(FSub(eth_cost, pol_cost), eth_cost), F_100)

\* the savings of one operation: the body of the if on the cost_usd of its Ethereum
\* and Polygon analyses (the int 0 of the else branch is the number 0)
Savings(eth_cost, pol_cost) ==
    IF FLt(Zero, eth_cost)
    THEN FMul(PyDiv(FSub(eth_cost, pol_cost), eth_cost), F_100)
    ELSE Zero

\* savings_percentages
RECURSIVE SavingsPercentages(_, _)
SavingsPercentages(eth_costs, pol_costs) ==
    IF eth_costs = <<>> THEN <<>>
    ELSE <<Savings(Head(eth_costs), Head(pol_costs))>>
         \o SavingsPercentages(Tail(eth_costs), Tail(pol_costs))

Figure1Columns(snapshot, vote, proposal, eth, pol) ==
    [snapshot |-> snapshot,
     vote_costs |-> Column(vote, "cost_usd"),
     proposal_costs |-> Column(proposal, "cost_usd"),
     vote_errors |-> Column(vote, "margin_error"),
     proposal_errors |-> Column(proposal, "margin_error"),
     eth_costs |-> Column(eth, "cost_usd"),
     pol_costs |-> Column(pol, "cost_usd"),
     savings_percentages |->
         SavingsPercentages(Column(eth, "cost_usd"), Column(pol, "cost_usd"))]

\* the numbers figure 1 plots, from the snapshot it reads
Figure1Data(egp, pgp, epu) ==
    CHOOSE data \in
        {Figure1Columns(<<egp, pgp, epu>>, vote, proposal, eth, pol) :
            vote \in {Analyses(egp, pgp, epu, dao_vote_gas \o <<our_costs["Cast Vote"]>>,
                               "ethereum")},
            proposal \in {Analyses(egp, pgp, epu,
                                   dao_proposal_gas \o <<our_costs["Create Proposal"]>>,
                                   "ethereum")},
            eth \in {Analyses(egp, pgp, epu, OperationsGas(operations), "ethereum")},
            pol \in {Analyses(egp, pgp, epu, OperationsGas(operations), "polygon")}} : TRUE

----------------------------------------------------------------------------
(* generate_figure2_efficiency_analysis: the batch efficiency model         *)

\* np.arange(1, 11)
batch_sizes == <<1, 2, 3, 4, 5, 6, 7, 8, 9, 10>>

individual_gas == 185000

\* the literal 0.1
F_0_1 == [s |-> 1, m |-> <<6554, 13107, 26214, 204>>, e |-> -56]

\* BatchGas with n in place of n - 1
BatchGasFromZero(n) ==
    FAdd(FromInt(21000),
         FMul(FromInt(individual_gas - 21000), FAdd(FromInt(1), FMul(F_0_1, FromInt(n)))))

\* batch_gas of the batch size n
BatchGas(n) ==
    FAdd(FromInt(21000),
         FMul(FromInt(individual_gas - 21000),
              FAdd(FromInt(1), FMul(F_0_1, FromInt(n - 1)))))

RECURSIVE BatchGasCosts(_)
BatchGasCosts(sizes) ==
    IF sizes = <<>> THEN <<>> ELSE <<BatchGas(Head(sizes))>> \o BatchGasCosts(Tail(sizes))

\* batch_gas_costs after the loop
batch_gas_costs == BatchGasCosts(batch_sizes)

\* one element of ((individual_total - batch_gas_costs) / individual_total) * 100
Improvement(n, batch_gas) ==
    FMul(FDiv(FSub(FromInt(individual_gas * n), batch_gas), FromInt(individual_gas * n)),
         F_100)

RECURSIVE Improvements(_, _)
Improvements(sizes, costs) ==
    IF sizes = <<>> THEN <<>>
    ELSE <<Improvement(Head(sizes), Head(costs))>> \o Improvements(Tail(sizes), Tail(costs))

efficiency_improvement == Improvements(batch_sizes, batch_gas_costs)

----------------------------------------------------------------------------
(* The state: the analyzer's fields, the position of main and of the fetch, *)
(* what the network was asked and answered, and what the run has produced.  *)

VARIABLES
    eth_gas_price, pol_gas_price, eth_price_usd,  \* None until set
    data_sources,             \* the provenance dict
    analysis_timestamp,
    stage,                    \* the statement of main's try block that runs next
    pc,                       \* "main", or the position inside the fetch
    endpoint_i,               \* the Polygon endpoint the loop is at
    status,                   \* "running", "raised", "returned", "exited"
    requests,                 \* the URLs requested, in order
    responses,                \* the response each request got, in order
    stages_log,               \* the stages that have run, in order
    fig1, fig2, summary,      \* what each stage produced, None before
    printed_error,            \* the except block has printed the error and trace
    exit_status,              \* None until the process exits
    call, estimate,           \* a direct call of the cost calculator and its result
    cost_pair, savings        \* the two costs of one operation and their savings

analyzer == <<eth_gas_price, pol_gas_price, eth_price_usd, data_sources, analysis_timestamp>>
network == <<requests, responses>>
outputs == <<fig1, fig2, summary, printed_error, exit_status>>
direct == <<call, estimate, cost_pair, savings>>
vars == <<analyzer, stage, pc, endpoint_i, status, network, stages_log, outputs, direct>>

Timestamps == {"2026-11-04 12:00"}

\* main_sequence with the first figure ahead of the fetch
main_sequence_figure_first == <<"fig1", "fetch", "fig2", "summary">>

\* the statements of main's try block after the construction, in order
main_sequence == <<"fetch", "fig1", "fig2", "summary">>

Cur == IF stage <= Len(main_sequence) THEN main_sequence[stage] ELSE "end"

\* ScientificDAOAnalyzer() has been constructed
Init ==
    /\ eth_gas_price = None
    /\ pol_gas_price = None
    /\ eth_price_usd = None
    /\ data_sources = <<>>
    /\ analysis_timestamp \in Timestamps
    /\ stage = 1
    /\ pc = "main"
    /\ endpoint_i = 0
    /\ status = "running"
    /\ requests = <<>>
    /\ responses = <<>>
    /\ stages_log = <<>>
    /\ fig1 = None
    /\ fig2 = None
    /\ summary = None
    /\ printed_error = FALSE
    /\ exit_status = None
    /\ call = None
    /\ estimate = None
    /\ cost_pair = None
    /\ savings = None

\* d[k] = v on the provenance dict
SetItem(d, k, v) == [j \in DOMAIN d \cup {k} |-> IF j = k THEN v ELSE d[j]]

\* main calls fetch_real_network_data
CallFetch ==
    /\ status = "running" /\ Cur = "fetch" /\ pc = "main"
    /\ pc' = "eth"
    /\ stages_log' = Append(stages_log, "fetch")
    /\ UNCHANGED <<analyzer, stage, endpoint_i, status, network, outputs, direct>>

\* FetchEthGas with a request exception escaping to the end of the fetches
FetchEthGasAborting ==
    /\ status = "running" /\ pc = "eth"
    /\ \E r \in Responses(eth_url) :
          LET v == EthGasAttempt(r)
          IN  /\ requests' = Append(requests, eth_url)
              /\ responses' = Append(responses, r)
              /\ IF v # None
                 THEN /\ eth_gas_price' = v
                      /\ data_sources' = SetItem(data_sources, "eth_gas",
                             Live(<<"Etherscan.io API">>, analysis_timestamp))
                 ELSE UNCHANGED <<eth_gas_price, data_sources>>
              /\ pc' = IF r.kind = "exception" THEN "fallback" ELSE "pol"
    /\ endpoint_i' = 1
    /\ UNCHANGED <<pol_gas_price, eth_price_usd, analysis_timestamp, stage, status,
                   stages_log, outputs, direct>>

\* the Etherscan request and what the try block does with the response
FetchEthGas ==
    /\ status = "running" /\ pc = "eth"
    /\ \E r \in Responses(eth_url) :
          LET v == EthGasAttempt(r)
          IN  /\ requests' = Append(requests, eth_url)
              /\ responses' = Append(responses, r)
              /\ IF v # None
                 THEN /\ eth_gas_price' = v
                      /\ data_sources' = SetItem(data_sources, "eth_gas",
                             Live(<<"Etherscan.io API">>, analysis_timestamp))
                 ELSE UNCHANGED <<eth_gas_price, data_sources>>
    /\ pc' = "pol"
    /\ endpoint_i' = 1
    /\ UNCHANGED <<pol_gas_price, eth_price_usd, analysis_timestamp, stage, status,
                   stages_log, outputs, direct>>

\* one turn of the loop over pol_endpoints
FetchPolGas ==
    /\ status = "running" /\ pc = "pol"
    /\ \E r \in Responses(pol_endpoints[endpoint_i]) :
          LET a == PolGasAttempt(pol_endpoints[endpoint_i], r)
              next == PolLoopNext(endpoint_i, a)
          IN  /\ requests' = Append(requests, pol_endpoints[endpoint_i])
              /\ responses' = Append(responses, r)
              /\ IF a # None
                 THEN /\ pol_gas_price' = a.price
                      /\ data_sources' = SetItem(data_sources, "pol_gas",
                             Live(a.source, analysis_timestamp))
                 ELSE UNCHANGED <<pol_gas_price, data_sources>>
              /\ endpoint_i' = next
              /\ pc' = IF next = 0 THEN "price" ELSE "pol"
    /\ UNCHANGED <<eth_gas_price, eth_price_usd, analysis_timestamp, stage, status,
                   stages_log, outputs, direct>>

\* the CoinGecko request and what the try block does with the response
FetchEthPrice ==
    /\ status = "running" /\ pc = "price"
    /\ \E r \in Responses(price_url) :
          LET v == EthPriceAttempt(r)
          IN  /\ requests' = Append(requests, price_url)
              /\ responses' = Append(responses, r)
              /\ IF v # None
                 THEN /\ eth_price_usd' = v
                      /\ data_sources' = SetItem(data_sources, "eth_price",
                             Live(<<"CoinGecko API">>, analysis_timestamp))
                 ELSE UNCHANGED <<eth_price_usd, data_sources>>
    /\ pc' = "fallback"
    /\ UNCHANGED <<eth_gas_price, pol_gas_price, analysis_timestamp, stage, endpoint_i,
                   status, stages_log, outputs, direct>>

\* Fallback with the test inverted
FallbackInverted(value, default) == IF value # None THEN default ELSE value

\* the fallbacks of a metric still None: the value and the provenance
Fallback(value, default) == IF value = None THEN default ELSE value

FallbackSources(d, egp, pgp, epu) ==
    LET d1 == IF egp = None THEN SetItem(d, "eth_gas", FallbackEthGas) ELSE d
        d2 == IF pgp = None THEN SetItem(d1, "pol_gas", FallbackPolGas) ELSE d1
    IN  IF epu = None THEN SetItem(d2, "eth_price", FallbackEthPrice) ELSE d2

\* the three fallback tests; fetch_real_network_data returns
ApplyFallbacks ==
    /\ status = "running" /\ pc = "fallback"
    /\ eth_gas_price' = Fallback(eth_gas_price, DefaultEthGas)
    /\ pol_gas_price' = Fallback(pol_gas_price, DefaultPolGas)
    /\ eth_price_usd' = Fallback(eth_price_usd, DefaultEthPrice)
    /\ data_sources' = FallbackSources(data_sources, eth_gas_price, pol_gas_price,
                                       eth_price_usd)
    /\ pc' = "main"
    /\ stage' = stage + 1
    /\ UNCHANGED <<analysis_timestamp, endpoint_i, status, network, stages_log,
                   outputs, direct>>

\* generate_figure1_cost_comparison: the costs are computed from the analyzer as it
\* is now; formatting eth_price_usd raises on None, and plotting or saving may fail
GenerateFigure1 ==
    /\ status = "running" /\ Cur = "fig1" /\ pc = "main"
    /\ stages_log' = Append(stages_log, "fig1")
    /\ \E plot_ok \in BOOLEAN :
          IF plot_ok /\ eth_price_usd # None
          THEN /\ fig1' = Figure1Data(eth_gas_price, pol_gas_price, eth_price_usd)
               /\ stage' = stage + 1
               /\ UNCHANGED status
          ELSE /\ status' = "raised"
               /\ UNCHANGED <<fig1, stage>>
    /\ UNCHANGED <<analyzer, pc, endpoint_i, network, fig2, summary, printed_error,
                   exit_status, direct>>

\* generate_figure2_efficiency_analysis: reads nothing of the analyzer; plotting or
\* saving may fail
GenerateFigure2 ==
    /\ status = "running" /\ Cur = "fig2" /\ pc = "main"
    /\ stages_log' = Append(stages_log, "fig2")
    /\ \E plot_ok \in BOOLEAN :
          IF plot_ok
          THEN /\ fig2' = [file |-> "figure2_efficiency_analysis.png",
                            batch_gas_costs |-> batch_gas_costs,
                            efficiency_improvement |-> efficiency_improvement]
               /\ stage' = stage + 1
               /\ UNCHANGED status
          ELSE /\ status' = "raised"
               /\ UNCHANGED <<fig2, stage>>
    /\ UNCHANGED <<analyzer, pc, endpoint_i, network, fig1, summary, printed_error,
                   exit_status, direct>>

\* generate_scientific_summary: prints the provenance and the snapshot
GenerateSummary ==
    /\ status = "running" /\ Cur = "summary" /\ pc = "main"
    /\ stages_log' = Append(stages_log, "summary")
    /\ summary' = [sources |-> data_sources,
                   conditions |-> <<eth_gas_price, pol_gas_price, eth_price_usd>>]
    /\ stage' = stage + 1
    /\ UNCHANGED <<analyzer, pc, endpoint_i, status, network, fig1, fig2, printed_error,
                   exit_status, direct>>

\* the end of the try block: the closing lines are printed and main returns
Complete ==
    /\ status = "running" /\ Cur = "end" /\ pc = "main"
    /\ status' = "returned"
    /\ UNCHANGED <<analyzer, stage, pc, endpoint_i, network, stages_log, outputs, direct>>

\* except Exception: the error and the traceback are printed and main returns
HandleException ==
    /\ status = "raised"
    /\ printed_error' = TRUE
    /\ status' = "returned"
    /\ UNCHANGED <<analyzer, stage, pc, endpoint_i, network, stages_log, fig1, fig2,
                   summary, exit_status, direct>>

\* main() has returned to the module: the interpreter exits
Exit ==
    /\ status = "returned"
    /\ exit_status' = 0
    /\ status' = "exited"
    /\ UNCHANGED <<analyzer, stage, pc, endpoint_i, network, stages_log, fig1, fig2,
                   summary, printed_error, direct>>

Next ==
    \/ CallFetch
    \/ FetchEthGas
    \/ FetchPolGas
    \/ FetchEthPrice
    \/ ApplyFallbacks
    \/ GenerateFigure1
    \/ GenerateFigure2
    \/ GenerateSummary
    \/ Complete
    \/ HandleException
    \/ Exit

Spec == Init /\ [][Next]_vars

----------------------------------------------------------------------------
(* The cost calculator called directly, on an analyzer whose snapshot the   *)
(* caller has set or left None.                                             *)

MaxSmallGas == 2

GasAmounts == (0..MaxSmallGas) \cup {our_costs["Cast Vote"], dao_vote_gas[1],
                                     our_costs["Create Private Deal"]}
Networks == {"ethereum", "polygon", "bitcoin"}

CalcInit ==
    /\ eth_gas_price \in {None, DefaultEthGas, F_30}
    /\ pol_gas_price \in {None, DefaultPolGas, F_45_2, F_2_3}
    /\ eth_price_usd \in {None, DefaultEthPrice, F_3000_5}
    /\ data_sources = <<>>
    /\ analysis_timestamp \in Timestamps
    /\ stage = 1
    /\ pc = "main"
    /\ endpoint_i = 0
    /\ status = "running"
    /\ requests = <<>>
    /\ responses = <<>>
    /\ stages_log = <<>>
    /\ fig1 = None
    /\ fig2 = None
    /\ summary = None
    /\ printed_error = FALSE
    /\ exit_status = None
    /\ call = None
    /\ estimate = None
    /\ cost_pair = None
    /\ savings = None

\* analyzer.calculate_cost_with_confidence_intervals(gas_amount, network)
CalcCall ==
    /\ \E gas_amount \in GasAmounts, net \in Networks :
          /\ call' = [gas_amount |-> gas_amount, network |-> net, analyzer |-> analyzer]
          /\ estimate' = calculate_cost_with_confidence_intervals(
                             eth_gas_price, pol_gas_price, eth_price_usd, gas_amount, net)
    /\ UNCHANGED <<analyzer, stage, pc, endpoint_i, status, network, stages_log, outputs,
                   cost_pair, savings>>

CalcSpec == CalcInit /\ [][CalcCall]_vars

----------------------------------------------------------------------------
(* The savings computation of figure 1 on the costs of one operation.       *)

CostValues ==
    {Zero, FNeg(FromInt(1)), FromInt(1), FromInt(10), DefaultPolGas, F_2_3, DefaultEthGas,
     F_30, F_45_2, F_3000_5, DefaultEthPrice, F_0_15}

\* the loop over operations has the two cost_usd of an operation at hand
SavingsInit ==
    /\ eth_gas_price = None
    /\ pol_gas_price = None
    /\ eth_price_usd = None
    /\ data_sources = <<>>
    /\ analysis_timestamp \in Timestamps
    /\ stage = 1
    /\ pc = "main"
    /\ endpoint_i = 0
    /\ status = "running"
    /\ requests = <<>>
    /\ responses = <<>>
    /\ stages_log = <<>>
    /\ fig1 = None
    /\ fig2 = None
    /\ summary = None
    /\ printed_error = FALSE
    /\ exit_status = None
    /\ call = None
    /\ estimate = None
    /\ \E eth_cost \in CostValues, pol_cost \in CostValues :
          cost_pair = [eth_cost |-> eth_cost, pol_cost |-> pol_cost]
    /\ savings = None

\* the if statement that appends to savings_percentages
SavingsLoopBody ==
    /\ cost_pair # None /\ savings = None
    /\ savings' = Savings(cost_pair.eth_cost, cost_pair.pol_cost)
    /\ UNCHANGED <<analyzer, stage, pc, endpoint_i, status, network, stages_log, outputs,
                   call, estimate, cost_pair>>

SavingsSpec == SavingsInit /\ [][SavingsLoopBody]_vars

----------------------------------------------------------------------------
(* The properties.  The decimal literals they name are converted here from  *)
(* their numerals, and what a response has to look like is stated from its  *)
(* shape, independently of the steps of the fetch.                          *)

Float_2 == FromInt(2)
Float_25 == FromInt(25)
Float_30 == FromInt(30)
Float_3500 == FromInt(3500)
Float_1_5 == Dec(15, 1)
Float_2_3 == Dec(23, 1)
Float_45_2 == Dec(452, 1)
Float_3000_5 == Dec(30005, 1)
Float_1e_9 == Dec(1, 9)
Float_1_96 == Dec(196, 2)
Float_0_15 == Dec(15, 2)
Float_0_08 == Dec(8, 2)
\* 2^-52
Epsilon == [s |-> 1, m |-> <<0, 0, 0, 128>>, e |-> -104]

\* a response with status code 200 whose body parses
Parses(r) == r.kind = "http" /\ r.status_code = 200 /\ r.body # Invalid

\* the body has j[k1][k2]
HasPath(j, k1, k2) ==
    /\ j.t = "obj" /\ k1 \in DOMAIN j.v
    /\ j.v[k1].t = "obj" /\ k2 \in DOMAIN j.v[k1].v

\* a number, or a str holding a numeral
Numeric(v) == v.t = "num" \/ (v.t = "str" /\ v.v \in {"30", "45.2", "2.3", "3000.5"})

\* the number a numeric field holds
NumberOf(v) ==
    IF v.t = "num" THEN v.v
    ELSE CASE v.v = "30" -> Float_30
           [] v.v = "45.2" -> Float_45_2
           [] v.v = "2.3" -> Float_2_3
           [] v.v = "3000.5" -> Float_3000_5

\* the success indicator and field path of a gas oracle, of the gas station and of
\* the price API
OracleIndicated(r) ==
    /\ Parses(r) /\ r.body.t = "obj" /\ "status" \in DOMAIN r.body.v
    /\ r.body.v["status"] = JS("1")
    /\ HasPath(r.body, "result", "ProposeGasPrice")
StationIndicated(r) == Parses(r) /\ HasPath(r.body, "standard", "maxFee")
PriceIndicated(r) == Parses(r) /\ HasPath(r.body, "ethereum", "usd")

\* the response yields a value
OracleYields(r) == OracleIndicated(r) /\ Numeric(r.body.v["result"].v["ProposeGasPrice"])
StationYields(r) == StationIndicated(r) /\ Numeric(r.body.v["standard"].v["maxFee"])
PriceYields(r) == PriceIndicated(r) /\ Numeric(r.body.v["ethereum"].v["usd"])

PolIndicated(url, r) ==
    IF url = pol_endpoints[1] THEN OracleIndicated(r) ELSE StationIndicated(r)
PolYields(url, r) == IF url = pol_endpoints[1] THEN OracleYields(r) ELSE StationYields(r)

\* the log of the network
Asked(url) == \E i \in 1..Len(requests) : requests[i] = url
TimesAsked(url) == Cardinality({i \in 1..Len(requests) : requests[i] = url})
IndexOf(url) == CHOOSE i \in 1..Len(requests) : requests[i] = url
ResponseTo(url) == responses[IndexOf(url)]
LastPolAsked == IF Asked(pol_endpoints[2]) THEN pol_endpoints[2] ELSE pol_endpoints[1]

snapshot == <<eth_gas_price, pol_gas_price, eth_price_usd>>
FetchReturned == stage > 1

\* a provenance string
Tagged(key, tag) == key \in DOMAIN data_sources /\ data_sources[key][1] = tag
Mentions(key, word) ==
    key \in DOMAIN data_sources /\
    \E i \in 1..Len(data_sources[key]) : data_sources[key][i] = word
IsLive(key, name) ==
    key \in DOMAIN data_sources /\ data_sources[key] = name \o <<" - ", analysis_timestamp>>

IsPrefix(a, b) == Len(a) <= Len(b) /\ a = SubSeq(b, 1, Len(a))

\* C1: once fetch_real_network_data has returned, a metric none of whose attempts
\* yielded a value equals its literal default (25.0, 1.5, 3500.0) and its provenance
\* starts with "Fallback"; when every call failed all three do.
C1_FallbackDefaults ==
    FetchReturned =>
        /\ ~OracleYields(ResponseTo(eth_url)) =>
              eth_gas_price = Float_25 /\ Tagged("eth_gas", "Fallback")
        /\ (\A i \in 1..Len(requests) :
                requests[i] \in {pol_endpoints[1], pol_endpoints[2]}
                    => ~PolYields(requests[i], responses[i])) =>
              pol_gas_price = Float_1_5 /\ Tagged("pol_gas", "Fallback")
        /\ ~PriceYields(ResponseTo(price_url)) =>
              eth_price_usd = Float_3500 /\ Tagged("eth_price", "Fallback")

\* every call raised, and the snapshot is the three defaults
C1_Witness ==
    /\ FetchReturned
    /\ \A i \in 1..Len(responses) : responses[i] = Exception
    /\ snapshot = <<Float_25, Float_1_5, Float_3500>>
    /\ Tagged("eth_gas", "Fallback") /\ Tagged("pol_gas", "Fallback")
    /\ Tagged("eth_price", "Fallback")

\* C2: the process exits with status 0 when all four stages succeed, and with a
\* non-zero status, after printing the error and the trace, when a stage raises.
C2_ExitStatus ==
    status = "exited" =>
        IF printed_error THEN exit_status # 0 ELSE exit_status = 0

\* C3: the Polygon endpoints are requested in the order of pol_endpoints, each at most
\* once, the secondary only when the primary yielded nothing and none after a
\* success; the price is the value of the first endpoint that yields one, read with
\* that endpoint's schema; a secondary answering {standard: {maxFee: 2.3}} after a
\* failed primary gives 2.3 with a provenance that mentions the Gas Station.
C3_PolygonFallbackOrder ==
    /\ TimesAsked(pol_endpoints[1]) <= 1 /\ TimesAsked(pol_endpoints[2]) <= 1
    /\ Asked(pol_endpoints[2]) =>
          /\ Asked(pol_endpoints[1])
          /\ IndexOf(pol_endpoints[1]) < IndexOf(pol_endpoints[2])
          /\ ~OracleYields(ResponseTo(pol_endpoints[1]))
    /\ (pc \in {"price", "fallback"} \/ FetchReturned) =>
          /\ Asked(pol_endpoints[1])
          /\ IF OracleYields(ResponseTo(pol_endpoints[1]))
             THEN /\ ~Asked(pol_endpoints[2])
                  /\ pol_gas_price =
                        NumberOf(ResponseTo(pol_endpoints[1]).body.v["result"].v["ProposeGasPrice"])
                  /\ Mentions("pol_gas", "Polygonscan.com API")
             ELSE /\ Asked(pol_endpoints[2])
                  /\ StationYields(ResponseTo(pol_endpoints[2])) =>
                        /\ pol_gas_price =
                              NumberOf(ResponseTo(pol_endpoints[2]).body.v["standard"].v["maxFee"])
                        /\ Mentions("pol_gas", "Gas Station")
                  /\ ResponseTo(pol_endpoints[2])
                         = Http(200, JO([standard |-> JO([maxFee |-> JN(Float_2_3)])])) =>
                        pol_gas_price = Float_2_3 /\ Mentions("pol_gas", "Gas Station")

\* the primary failed and the secondary answered {standard: {maxFee: 2.3}}
C3_Witness ==
    /\ FetchReturned
    /\ ~OracleYields(ResponseTo(pol_endpoints[1]))
    /\ ResponseTo(pol_endpoints[2])
           = Http(200, JO([standard |-> JO([maxFee |-> JN(Float_2_3)])]))
    /\ pol_gas_price = Float_2_3
    /\ Mentions("pol_gas", "Gas Station")

\* what each metric is after the fetch, from the responses of its own endpoints
ExpectedEthGas(r) ==
    IF OracleYields(r)
    THEN <<NumberOf(r.body.v["result"].v["ProposeGasPrice"]),
           <<"Etherscan.io API", " - ", analysis_timestamp>> >>
    ELSE <<Float_25, FallbackEthGas>>
ExpectedPolGas(r1, second) ==
    IF OracleYields(r1)
    THEN <<NumberOf(r1.body.v["result"].v["ProposeGasPrice"]),
           <<"Polygonscan.com API", " - ", analysis_timestamp>> >>
    ELSE IF second # <<>> /\ StationYields(second[1])
    THEN <<NumberOf(second[1].body.v["standard"].v["maxFee"]),
           <<"Polygon ", "Gas Station", " - ", analysis_timestamp>> >>
    ELSE <<Float_1_5, FallbackPolGas>>
ExpectedEthPrice(r) ==
    IF PriceYields(r)
    THEN <<NumberOf(r.body.v["ethereum"].v["usd"]),
           <<"CoinGecko API", " - ", analysis_timestamp>> >>
    ELSE <<Float_3500, FallbackEthPrice>>

\* C4: whatever the endpoints answer, the Ethereum gas, Polygon gas and ETH price
\* fetches are all attempted and no exception leaves the fetch, and the final value
\* and provenance of each metric are a function of the responses of that metric's
\* own endpoints only.
C4_FailureIsolation ==
    /\ Cur = "fetch" => status = "running"
    /\ FetchReturned =>
          /\ Asked(eth_url) /\ Asked(pol_endpoints[1]) /\ Asked(price_url)
          /\ DOMAIN data_sources = {"eth_gas", "pol_gas", "eth_price"}
          /\ <<eth_gas_price, data_sources["eth_gas"]>> = ExpectedEthGas(ResponseTo(eth_url))
          /\ <<pol_gas_price, data_sources["pol_gas"]>> =
                ExpectedPolGas(ResponseTo(pol_endpoints[1]),
                               IF Asked(pol_endpoints[2])
                               THEN <<ResponseTo(pol_endpoints[2])>> ELSE <<>>)
          /\ <<eth_price_usd, data_sources["eth_price"]>> =
                ExpectedEthPrice(ResponseTo(price_url))

\* the Etherscan request raised, and both later fetches still got live values
C4_Witness ==
    /\ FetchReturned
    /\ ResponseTo(eth_url) = Exception
    /\ eth_gas_price = Float_25
    /\ pol_gas_price = Float_45_2 /\ IsLive("pol_gas", <<"Polygonscan.com API">>)
    /\ eth_price_usd = Float_3000_5 /\ IsLive("eth_price", <<"CoinGecko API">>)

\* C5: while the fetch runs, a metric holds a live value and a live provenance only
\* if the response of the attempt had status code 200, parsed, and carried the
\* success indicator and field path of its endpoint; after any other response the
\* attempt has left the metric unset and without provenance, and no exception
\* leaves fetch_real_network_data.
C5_LiveOnlyIfAccepted ==
    /\ Cur = "fetch" => status = "running"
    /\ pc \in {"pol", "price", "fallback"} =>
          /\ eth_gas_price # None =>
                OracleIndicated(ResponseTo(eth_url)) /\ IsLive("eth_gas", <<"Etherscan.io API">>)
          /\ ~OracleIndicated(ResponseTo(eth_url)) =>
                eth_gas_price = None /\ "eth_gas" \notin DOMAIN data_sources
    /\ pc = "pol" => pol_gas_price = None /\ "pol_gas" \notin DOMAIN data_sources
    /\ pc \in {"price", "fallback"} =>
          /\ pol_gas_price # None =>
                /\ PolIndicated(LastPolAsked, ResponseTo(LastPolAsked))
                /\ ~Tagged("pol_gas", "Fallback")
                /\ \/ IsLive("pol_gas", <<"Polygonscan.com API">>)
                   \/ IsLive("pol_gas", <<"Polygon ", "Gas Station">>)
          /\ ~PolIndicated(LastPolAsked, ResponseTo(LastPolAsked)) =>
                pol_gas_price = None /\ "pol_gas" \notin DOMAIN data_sources
    /\ pc = "fallback" =>
          /\ eth_price_usd # None =>
                PriceIndicated(ResponseTo(price_url)) /\ IsLive("eth_price", <<"CoinGecko API">>)
          /\ ~PriceIndicated(ResponseTo(price_url)) =>
                eth_price_usd = None /\ "eth_price" \notin DOMAIN data_sources

\* before the fallbacks: a live gas price, and a price API whose 200 response lacks
\* the usd field has left the ETH price unset
C5_Witness ==
    /\ pc = "fallback"
    /\ eth_gas_price = Float_30 /\ IsLive("eth_gas", <<"Etherscan.io API">>)
    /\ ResponseTo(price_url) = Http(200, PriceNoUsd)
    /\ eth_price_usd = None

ValidCall == call # None /\ call.network \in {"ethereum", "polygon"}
NoneFree(q) == \A i \in 1..Len(q) : q[i] # None

\* C6: on a snapshot that is set, cost_usd is gas_amount * gas_price * 1e-9 *
\* eth_price_usd in floating point, gas_price being the snapshot's Ethereum gas price
\* for 'ethereum' and its Polygon gas price for 'polygon', and the call leaves the
\* analyzer as it was.
C6_CostUsd ==
    (ValidCall /\ NoneFree(snapshot)) =>
        /\ analyzer = call.analyzer
        /\ estimate.cost_usd =
              FMul(FMul(FMul(FromInt(call.gas_amount),
                             IF call.network = "ethereum" THEN eth_gas_price
                             ELSE pol_gas_price),
                        Float_1e_9),
                   eth_price_usd)

\* a Polygon call for the gas of a vote on a snapshot that is set
C6_Witness ==
    /\ ValidCall /\ NoneFree(snapshot)
    /\ call.network = "polygon" /\ call.gas_amount = 31000
    /\ eth_gas_price # pol_gas_price
    /\ estimate.cost_usd # Zero

ClaimedVolatility(net) == IF net = "ethereum" THEN Float_0_15 ELSE Float_0_08

\* C7 as amended: margin_error is 1.96 * volatility * cost_usd with volatility 0.15
\* for 'ethereum' and 0.08 for 'polygon', lower_bound is cost_usd - margin_error and
\* upper_bound is cost_usd + margin_error, each in floating point; upper_bound -
\* lower_bound differs from 2 * margin_error by at most 2^-52 * cost_usd.
C7_IntervalUpToRounding ==
    ValidCall =>
        /\ estimate.margin_error =
              FMul(FMul(Float_1_96, ClaimedVolatility(call.network)), estimate.cost_usd)
        /\ estimate.lower_bound = FSub(estimate.cost_usd, estimate.margin_error)
        /\ estimate.upper_bound = FAdd(estimate.cost_usd, estimate.margin_error)
        /\ ~FLt(FMul(Epsilon, estimate.cost_usd),
                FAbs(FSub(FSub(estimate.upper_bound, estimate.lower_bound),
                          FMul(Float_2, estimate.margin_error))))

\* a call whose interval is not exactly twice the margin wide
C7_Witness ==
    /\ ValidCall
    /\ call.gas_amount = 31000 /\ call.network = "ethereum"
    /\ FSub(estimate.upper_bound, estimate.lower_bound)
           # FMul(Float_2, estimate.margin_error)

\* C7 as claimed: upper_bound - lower_bound == 2 * margin_error
C7_ExactWidth ==
    ValidCall =>
        FSub(estimate.upper_bound, estimate.lower_bound)
            = FMul(Float_2, estimate.margin_error)

\* C8: a call with a network selector other than 'ethereum' and 'polygon' is
\* rejected with an error instead of returning a CostEstimate.
C8_RejectsOtherSelectors ==
    (call # None /\ call.network \notin {"ethereum", "polygon"}) => estimate = Raise

\* C9 as amended: the interval is not clamped, lower_bound being exactly cost_usd -
\* margin_error as computed, but for a positive gas_amount on positive prices
\* lower_bound is above 0 (and below cost_usd): it never goes negative.
C9_LowerBoundPositive ==
    (ValidCall /\ call.gas_amount > 0) =>
        /\ estimate.lower_bound = FSub(estimate.cost_usd, estimate.margin_error)
        /\ FLt(Zero, estimate.lower_bound)
        /\ FLt(estimate.lower_bound, estimate.cost_usd)

\* an Ethereum call, the network of the larger volatility
C9_Witness ==
    /\ ValidCall /\ call.gas_amount > 0 /\ call.network = "ethereum"
    /\ FLt(Zero, estimate.lower_bound)
    /\ estimate.lower_bound # estimate.cost_usd

\* C9 as claimed: some positive gas_amount, selector and positive snapshot (this
\* state's, or any the calls of this model are made on) give a lower_bound below 0
C9_NegativeLowerBoundExists ==
    \E egp \in {DefaultEthGas, F_30} \cup ({eth_gas_price} \ {None}),
       pgp \in {DefaultPolGas, F_45_2, F_2_3} \cup ({pol_gas_price} \ {None}),
       epu \in {DefaultEthPrice, F_3000_5} \cup ({eth_price_usd} \ {None}),
       gas_amount \in GasAmounts \ {0}, net \in {"ethereum", "polygon"} :
        FLt(calculate_cost_with_confidence_intervals(egp, pgp, epu, gas_amount, net)
                .lower_bound, Zero)

\* C10: the stages run in the order fetch, figure 1, figure 2, summary, each at most
\* once; a figure is rendered only after the fetch has returned, from the snapshot
\* as the fetch left it, which nothing changes afterwards; the summary comes after
\* both figures.
C10_StageOrder ==
    /\ IsPrefix(stages_log, <<"fetch", "fig1", "fig2", "summary">>)
    /\ Len(stages_log) >= 2 =>
          /\ pc = "main" /\ Asked(price_url)
          /\ NoneFree(snapshot)
          /\ DOMAIN data_sources = {"eth_gas", "pol_gas", "eth_price"}
    /\ fig1 # None => fig1.snapshot = snapshot /\ NoneFree(fig1.snapshot)
    /\ summary # None =>
          fig1 # None /\ fig2 # None /\ summary.conditions = snapshot

\* a run that went through the four stages and returned
C10_Witness ==
    /\ status = "returned"
    /\ stages_log = <<"fetch", "fig1", "fig2", "summary">>
    /\ fig1 # None /\ fig2 # None /\ summary # None
    /\ fig1.snapshot = summary.conditions

Float_1 == FromInt(1)
Float_10 == FromInt(10)
Float_90 == FromInt(90)
Float_100 == FromInt(100)

\* C11: the savings of an operation are (eth_cost - pol_cost) / eth_cost * 100 in
\* floating point when eth_cost > 0 (90.0 for 10.0 and 1.0) and 0 when eth_cost is 0,
\* and computing them never raises.
C11_SavingsPercentage ==
    savings # None =>
        /\ savings # Raise
        /\ FLt(Zero, cost_pair.eth_cost) =>
              savings = FMul(FDiv(FSub(cost_pair.eth_cost, cost_pair.pol_cost),
                                  cost_pair.eth_cost),
                             Float_100)
        /\ cost_pair.eth_cost = Zero => savings = Zero
        /\ (cost_pair.eth_cost = Float_10 /\ cost_pair.pol_cost = Float_1) =>
              savings = Float_90

\* the savings of 10.0 against 1.0 have been computed
C11_Witness ==
    /\ cost_pair # None /\ savings # None
    /\ cost_pair.eth_cost = Float_10 /\ cost_pair.pol_cost = Float_1
    /\ savings = Float_90

Float_0_1 == Dec(1, 1)
Float_21000 == FromInt(21000)
Float_185000 == FromInt(185000)

\* batch_gas(n) as claimed, for a base_tx_cost and an individual_gas
ClaimedBatchGas(n, base_tx_cost, gas) ==
    FAdd(FromInt(base_tx_cost),
         FMul(FromInt(gas - base_tx_cost),
              FAdd(Float_1, FMul(Float_0_1, FromInt(n - 1)))))

ClaimedBatchGasCosts ==
    <<ClaimedBatchGas(1, 21000, 185000), ClaimedBatchGas(2, 21000, 185000),
      ClaimedBatchGas(3, 21000, 185000), ClaimedBatchGas(4, 21000, 185000),
      ClaimedBatchGas(5, 21000, 185000), ClaimedBatchGas(6, 21000, 185000),
      ClaimedBatchGas(7, 21000, 185000), ClaimedBatchGas(8, 21000, 185000),
      ClaimedBatchGas(9, 21000, 185000), ClaimedBatchGas(10, 21000, 185000)>>

\* C12: the batch gas figure 2 plots for n = 1..10 is 21000 + (185000 - 21000) *
\* (1 + 0.1 * (n - 1)) in floating point; it is 185000 at n = 1, where the plotted
\* saving is 0, it never decreases as n grows, and it is never below 21000.
C12_BatchGasModel ==
    fig2 # None =>
        /\ fig2.batch_gas_costs = ClaimedBatchGasCosts
        /\ fig2.batch_gas_costs[1] = Float_185000
        /\ fig2.efficiency_improvement[1] = Zero
        /\ \A n \in 1..9 : ~FLt(fig2.batch_gas_costs[n + 1], fig2.batch_gas_costs[n])
        /\ \A n \in 1..10 : ~FLt(fig2.batch_gas_costs[n], Float_21000)

\* figure 2 has been rendered, with the ten batch sizes and a cost that has grown
C12_Witness ==
    /\ fig2 # None
    /\ Len(fig2.batch_gas_costs) = 10 /\ Len(fig2.efficiency_improvement) = 10
    /\ FLt(fig2.batch_gas_costs[1], fig2.batch_gas_costs[10])
    /\ FLt(Zero, fig2.efficiency_improvement[10])
====
